---------------------------- MODULE Spec2Model ----------------------------
(***************************************************************************)
(* Model of the release script of dev-essentials-pack (scripts/release.js, *)
(* scripts/utils.js, scripts/logger.js).                                   *)
(*                                                                         *)
(* Text is modelled as it is in JavaScript: a string is a sequence of      *)
(* UTF-16 code units (naturals), so that sorting, splitting, trimming,     *)
(* prefix tests and escape-sequence removal are computed, not assumed.     *)
(* Log and error texts, which the script only passes around, are TLA+      *)
(* strings; a template string made of them is the tuple of its parts.      *)
(***************************************************************************)
EXTENDS Integers, Sequences, FiniteSets, TLC

VARIABLES
    call,             \* SpecFn: the pure function applied, its arguments and result
    pc,               \* position of makeRelease
    exitCode,         \* process exit code, -1 while running
    manifest,         \* package.json on disk (lines)
    manifest0,        \* history: package.json as it was when the run started
    recommendations,  \* .vscode/extensions.json on disk (lines)
    changed,          \* files whose working-tree content differs from HEAD
    staged,           \* the staging area (index): files staged for commit
    staged0,          \* history: the staging area when the run started
    commits,          \* commits created by the run, in order
    projectFiles,     \* makeRelease's local projectFiles
    data,             \* the ExtensionPackData object
    cpfMessage,       \* commitProjectFiles' local message
    answers,          \* the answers given at the confirmation prompts, with the stage
    gitFailures,      \* history: the version-control commands that failed
    changed0,         \* history: changed when the run started
    report,           \* what LoggerErrorHandler.handle passed to the error logger
    log               \* messages passed to the info logger, in order

vars == <<call, pc, exitCode, manifest, manifest0, recommendations, changed,
          staged, staged0, commits, projectFiles, data, cpfMessage, answers,
          gitFailures, changed0, report, log>>

flowVars == <<pc, exitCode, manifest, manifest0, recommendations, changed,
              staged, staged0, commits, projectFiles, data, cpfMessage, answers,
              gitFailures, changed0, report, log>>

---------------------------------------------------------------------------
(* Bounds of the model. *)

\* longest extension list drawn as an input of a pure function
MaxLen == 3
\* longest extensionPack list of the manifest when the run starts; the
\* recommendations list may be one longer
MaxPack == 1
\* largest version component drawn as an input
MaxVer == 10
\* most files changed in the working tree when the run starts
MaxChanged == 2

---------------------------------------------------------------------------
(* Code units. *)

LF == 10
ESC == 27
SPACE == 32
QUOTE == 34
PLUS == 43
MINUS == 45
DOT == 46
DIGIT0 == 48
LBRACKET == 91
BACKSLASH == 92
LOWER_M == 109
PIPE == 124

\* '{{version}}'
VersionPlaceholder == <<123, 123, 118, 101, 114, 115, 105, 111, 110, 125, 125>>
\* 'feat(extension): Updates to v{{version}}\n\n'
TitleTemplate ==
    <<102, 101, 97, 116, 40, 101, 120, 116, 101, 110, 115, 105, 111, 110, 41,
      58, 32, 85, 112, 100, 97, 116, 101, 115, 32, 116, 111, 32, 118>>
    \o VersionPlaceholder \o <<LF, LF>>
\* 'New extension list:\n'
NewListHeading ==
    <<78, 101, 119, 32, 101, 120, 116, 101, 110, 115, 105, 111, 110, 32, 108,
      105, 115, 116, 58, LF>>
\* 'keep', 'remove', 'add'
KeepWord == <<107, 101, 101, 112>>
RemoveWord == <<114, 101, 109, 111, 118, 101>>
AddWord == <<97, 100, 100>>
\* '  • ', '  - ', '  + '
KeepBullet == <<SPACE, SPACE, 8226, SPACE>>
RemoveBullet == <<SPACE, SPACE, MINUS, SPACE>>
AddBullet == <<SPACE, SPACE, PLUS, SPACE>>
\* 'Extension files updated:'
ExtensionFilesTitle ==
    <<69, 120, 116, 101, 110, 115, 105, 111, 110, 32, 102, 105, 108, 101, 115,
      32, 117, 112, 100, 97, 116, 101, 100, 58>>
\* 'chore: Updated project files'
ProjectFilesTitle ==
    <<99, 104, 111, 114, 101, 58, 32, 85, 112, 100, 97, 116, 101, 100, 32, 112,
      114, 111, 106, 101, 99, 116, 32, 102, 105, 108, 101, 115>>
\* 'package.json'
PackageJsonName == <<112, 97, 99, 107, 97, 103, 101, 46, 106, 115, 111, 110>>
\* '.vscode/extensions.json'
ExtensionsJsonName ==
    <<46, 118, 115, 99, 111, 100, 101, 47, 101, 120, 116, 101, 110, 115, 105,
      111, 110, 115, 46, 106, 115, 111, 110>>
\* 'assets/icon_128.png'
IconName ==
    <<97, 115, 115, 101, 116, 115, 47, 105, 99, 111, 110, 95, 49, 50, 56, 46,
      112, 110, 103>>
\* 'README.md'
ReadmeName == <<82, 69, 65, 68, 77, 69, 46, 109, 100>>
\* 'scripts/release.js', a file of the repository that is no extension file
ReleaseScriptName ==
    <<115, 99, 114, 105, 112, 116, 115, 47, 114, 101, 108, 101, 97, 115, 101,
      46, 106, 115>>

---------------------------------------------------------------------------
(* JavaScript string and array built-ins, on sequences of code units. *)

\* the elements of an array
Range(s) == {s[i] : i \in DOMAIN s}

\* Array.prototype.includes
includes(list, x) == \E i \in DOMAIN list : list[i] = x

\* String.prototype.startsWith
startsWith(s, p) == Len(p) <= Len(s) /\ SubSeq(s, 1, Len(p)) = p

\* String.prototype.endsWith
endsWith(s, p) == Len(p) <= Len(s) /\ SubSeq(s, Len(s) - Len(p) + 1, Len(s)) = p

\* String.prototype.includes
strIncludes(s, p) ==
    \E i \in 1..(Len(s) - Len(p) + 1) : SubSeq(s, i, i + Len(p) - 1) = p

\* the white space String.prototype.trim strips (the code units below 256)
WhiteSpace == {9, 10, 11, 12, 13, SPACE, 160}

\* String.prototype.trim
trim(s) ==
    LET keep == {i \in DOMAIN s : s[i] \notin WhiteSpace}
    IN  IF keep = {} THEN <<>>
        ELSE SubSeq(s, CHOOSE i \in keep : \A j \in keep : i <= j,
                       CHOOSE i \in keep : \A j \in keep : j <= i)

\* String.prototype.split with a one-unit separator
RECURSIVE split(_, _)
split(s, sep) ==
    LET at == {i \in DOMAIN s : s[i] = sep}
    IN  IF at = {} THEN <<s>>
        ELSE LET i == CHOOSE k \in at : \A j \in at : k <= j
             IN  <<SubSeq(s, 1, i - 1)>> \o split(SubSeq(s, i + 1, Len(s)), sep)

\* Array.prototype.join
RECURSIVE join(_, _)
join(list, sep) ==
    IF list = <<>> THEN <<>>
    ELSE IF Len(list) = 1 THEN list[1]
    ELSE list[1] \o sep \o join(Tail(list), sep)

\* the first index at or after i where p occurs in s, 0 if none (indexOf)
indexOf(s, p) ==
    LET at == {i \in 1..(Len(s) - Len(p) + 1) : SubSeq(s, i, i + Len(p) - 1) = p}
    IN  IF at = {} THEN 0 ELSE CHOOSE i \in at : \A j \in at : i <= j

replaceFirst_none(s, p, r) == s

\* String.prototype.replace with a string pattern: the first occurrence only
replaceFirst(s, p, r) ==
    LET i == indexOf(s, p)
    IN  IF i = 0 THEN s
        ELSE SubSeq(s, 1, i - 1) \o r \o SubSeq(s, i + Len(p), Len(s))

\* message.replace(/"/g, '\\"'): every quote, from the first one on
RECURSIVE escapeQuotes(_)
escapeQuotes(s) ==
    LET i == indexOf(s, <<QUOTE>>)
    IN  IF i = 0 THEN s
        ELSE SubSeq(s, 1, i - 1) \o <<BACKSLASH, QUOTE>>
             \o escapeQuotes(SubSeq(s, i + 1, Len(s)))

\* the comparison of the default Array.prototype.sort: by UTF-16 code units
RECURSIVE codeUnitLess(_, _)
codeUnitLess(a, b) ==
    IF b = <<>> THEN FALSE
    ELSE IF a = <<>> THEN TRUE
    ELSE IF a[1] # b[1] THEN a[1] < b[1]
    ELSE codeUnitLess(Tail(a), Tail(b))

RECURSIVE insertSorted(_, _)
insertSorted(sorted, x) ==
    IF sorted = <<>> THEN <<x>>
    ELSE IF codeUnitLess(x, sorted[1]) THEN <<x>> \o sorted
    ELSE <<sorted[1]>> \o insertSorted(Tail(sorted), x)

\* Array.prototype.sort with no comparator
RECURSIVE sort(_)
sort(list) ==
    IF list = <<>> THEN <<>>
    ELSE insertSorted(sort(SubSeq(list, 1, Len(list) - 1)), list[Len(list)])

IsDigit(c) == c >= DIGIT0 /\ c <= DIGIT0 + 9

\* Number(s) for a string of decimal digits
RECURSIVE Number(_)
Number(s) ==
    IF s = <<>> THEN 0
    ELSE 10 * Number(SubSeq(s, 1, Len(s) - 1)) + (s[Len(s)] - DIGIT0)

\* `${n}` for a non-negative integer
RECURSIVE numberToString(_)
numberToString(n) ==
    IF n < 10 THEN <<DIGIT0 + n>>
    ELSE numberToString(n \div 10) \o <<DIGIT0 + (n % 10)>>

---------------------------------------------------------------------------
(* scripts/utils.js *)

\* colorize for the colours the script uses: '\x1b[3Xm' text '\x1b[0m'
colorize(color, text) ==
    LET code == CASE color = "red" -> 1
                  [] color = "green" -> 2
                  [] color = "white" -> 7
    IN  <<ESC, LBRACKET, DIGIT0 + 3, DIGIT0 + code, LOWER_M>> \o text
        \o <<ESC, LBRACKET, DIGIT0, LOWER_M>>

\* the length of the match of /\x1b\[\d+m/ at index i of s, 0 if none
ansiMatch(s, i) ==
    IF i + 3 <= Len(s) /\ s[i] = ESC /\ s[i + 1] = LBRACKET /\ IsDigit(s[i + 2])
    THEN LET ends == {k \in (i + 3)..Len(s) :
                         /\ s[k] = LOWER_M
                         /\ \A j \in (i + 2)..(k - 1) : IsDigit(s[j])}
         IN  IF ends = {} THEN 0 ELSE (CHOOSE k \in ends : TRUE) - i + 1
    ELSE 0

removeANSI_keep(text) == text

\* removeANSI: text.replace(/\x1b\[\d+m|\x1b\[0m/g, ''): every match, from the
\* first one on
RECURSIVE removeANSI(_)
removeANSI(text) ==
    LET at == {i \in DOMAIN text : ansiMatch(text, i) > 0}
    IN  IF at = {} THEN text
        ELSE LET i == CHOOSE k \in at : \A j \in at : k <= j
             IN  SubSeq(text, 1, i - 1)
                 \o removeANSI(SubSeq(text, i + ansiMatch(text, i), Len(text)))

\* confirm: answer.charAt(0).toLowerCase() === 'y'
confirm(answer) == answer # <<>> /\ answer[1] \in {121, 89}

---------------------------------------------------------------------------
(* scripts/release.js: the pure functions *)

mergeExtensions_unsorted(currentExtensions, newExtensions) ==
    SelectSeq(currentExtensions, LAMBDA ext : includes(newExtensions, ext))
    \o SelectSeq(newExtensions, LAMBDA ext : ~includes(currentExtensions, ext))

mergeExtensions(currentExtensions, newExtensions) ==
    sort(SelectSeq(currentExtensions, LAMBDA ext : includes(newExtensions, ext))
         \o SelectSeq(newExtensions, LAMBDA ext : ~includes(currentExtensions, ext)))

\* the list built by the two loops: ext + '|keep', ext + '|remove', ext + '|add'
changeList(currentExtensions, updatedExtensions) ==
    [i \in DOMAIN currentExtensions |->
        currentExtensions[i] \o <<PIPE>> \o
        (IF includes(updatedExtensions, currentExtensions[i])
         THEN KeepWord ELSE RemoveWord)]
    \o
    [i \in DOMAIN SelectSeq(updatedExtensions,
                            LAMBDA ext : ~includes(currentExtensions, ext)) |->
        SelectSeq(updatedExtensions,
                  LAMBDA ext : ~includes(currentExtensions, ext))[i]
        \o <<PIPE>> \o AddWord]

\* one pass of the for loop over list.sort(): the line of one entry
changeLine(ext) ==
    LET parts == split(ext, PIPE)
        name == parts[1]
        action == parts[2]
    IN  CASE action = KeepWord -> colorize("white", KeepBullet \o name \o <<LF>>)
          [] action = RemoveWord -> colorize("red", RemoveBullet \o name \o <<LF>>)
          [] action = AddWord -> colorize("green", AddBullet \o name \o <<LF>>)
          [] OTHER -> <<>>

RECURSIVE concatLines(_)
concatLines(list) ==
    IF list = <<>> THEN <<>> ELSE changeLine(list[1]) \o concatLines(Tail(list))

getCommitMessage_alwaysReport(currentExtensions, updatedExtensions) ==
    TitleTemplate \o NewListHeading
    \o concatLines(sort(changeList(currentExtensions, updatedExtensions)))

getCommitMessageByExtensionListChanges(currentExtensions, updatedExtensions) ==
    LET list == changeList(currentExtensions, updatedExtensions)
    IN  IF SelectSeq(list, LAMBDA ext : ~endsWith(ext, <<PIPE>> \o KeepWord)) = <<>>
        THEN <<>>
        ELSE TitleTemplate \o NewListHeading \o concatLines(sort(list))

increaseVersion_keepLower(version, type) ==
    LET parts == split(version, DOT)
        major == Number(parts[1])
        minor == Number(parts[2])
        patch == Number(parts[3])
    IN  CASE type = "major" ->
               numberToString(major + 1) \o <<DOT>> \o numberToString(minor)
               \o <<DOT>> \o numberToString(patch)
          [] type = "minor" ->
               numberToString(major) \o <<DOT>> \o numberToString(minor + 1)
               \o <<DOT>> \o numberToString(patch)
          [] type = "patch" ->
               numberToString(major) \o <<DOT>> \o numberToString(minor)
               \o <<DOT>> \o numberToString(patch + 1)
          [] OTHER -> version

increaseVersion(version, type) ==
    LET parts == split(version, DOT)
        major == Number(parts[1])
        minor == Number(parts[2])
        patch == Number(parts[3])
    IN  CASE type = "major" ->
               numberToString(major + 1) \o <<DOT, DIGIT0, DOT, DIGIT0>>
          [] type = "minor" ->
               numberToString(major) \o <<DOT>> \o numberToString(minor + 1)
               \o <<DOT, DIGIT0>>
          [] type = "patch" ->
               numberToString(major) \o <<DOT>> \o numberToString(minor)
               \o <<DOT>> \o numberToString(patch + 1)
          [] OTHER -> version

\* bumpVersion: the version type read from the lines of the message
versionType(message) ==
    LET lines == split(removeANSI(message), LF)
    IN  IF \E i \in DOMAIN lines : startsWith(trim(lines[i]), <<MINUS>>)
        THEN "major"
        ELSE IF \E i \in DOMAIN lines : startsWith(trim(lines[i]), <<PLUS>>)
        THEN "minor"
        ELSE "patch"

\* bumpVersion: data.updatedVersion
bumpVersion(d) ==
    [d EXCEPT !.updatedVersion = increaseVersion(d.currentVersion, versionType(d.message))]

\* getCommitMessageByStagedFiles
getCommitMessageByStagedFiles(files, title) ==
    escapeQuotes(IF Len(files) > 0
                 THEN title \o <<LF, LF, MINUS, SPACE>>
                      \o join(files, <<LF, MINUS, SPACE>>) \o <<LF>>
                 ELSE <<>>)

---------------------------------------------------------------------------
(* Inputs of the pure functions. *)

\* 'a.b', 'a.b-c', 'c.d': identifiers of the publisher.name form
Ids == {<<97, 46, 98>>, <<97, 46, 98, 45, 99>>, <<99, 46, 100>>}

RECURSIVE SeqsUpTo(_, _)
SeqsUpTo(S, n) ==
    IF n = 0 THEN {<<>>}
    ELSE LET shorter == SeqsUpTo(S, n - 1)
         IN  shorter \cup {Append(s, x) : s \in {t \in shorter : Len(t) = n - 1}, x \in S}

ExtensionLists == SeqsUpTo(Ids, MaxLen)

versionString(major, minor, patch) ==
    numberToString(major) \o <<DOT>> \o numberToString(minor) \o <<DOT>>
    \o numberToString(patch)

VersionTypes == {"major", "minor", "patch", "premajor", ""}

NoCall == [op |-> "none"]

InitFlowIdle ==
    /\ pc = "idle"
    /\ exitCode = -1
    /\ manifest = [comments |-> 0, json |-> [version |-> <<>>]]
    /\ manifest0 = manifest
    /\ recommendations = [comments |-> 0, json |-> [recommendations |-> <<>>]]
    /\ changed = {}
    /\ staged = {}
    /\ staged0 = {}
    /\ commits = <<>>
    /\ projectFiles = <<>>
    /\ data = [set |-> FALSE]
    /\ cpfMessage = <<>>
    /\ answers = <<>>
    /\ gitFailures = <<>>
    /\ changed0 = {}
    /\ report = [set |-> FALSE]
    /\ log = <<>>

InitFn ==
    /\ InitFlowIdle
    /\ \/ \E a \in ExtensionLists, b \in ExtensionLists :
              call = [op |-> "input", a |-> a, b |-> b, version |-> <<>>,
                      nums |-> <<>>]
       \/ \E ma \in 0..MaxVer, mi \in 0..MaxVer, pa \in 0..MaxVer :
              call = [op |-> "input", a |-> <<>>, b |-> <<>>,
                      version |-> versionString(ma, mi, pa),
                      nums |-> <<ma, mi, pa>>]

CallMergeExtensions ==
    /\ call.op = "input" /\ call.version = <<>>
    /\ call' = [op |-> "mergeExtensions", a |-> call.a, b |-> call.b,
                result |-> mergeExtensions(call.a, call.b)]
    /\ UNCHANGED flowVars

CallGetCommitMessage ==
    /\ call.op = "input" /\ call.version = <<>>
    /\ call' = [op |-> "getCommitMessageByExtensionListChanges",
                a |-> call.a, b |-> call.b,
                result |-> getCommitMessageByExtensionListChanges(call.a, call.b)]
    /\ UNCHANGED flowVars

CallIncreaseVersion ==
    /\ call.op = "input" /\ call.version # <<>>
    /\ \E type \in VersionTypes :
          call' = [op |-> "increaseVersion", version |-> call.version,
                   nums |-> call.nums, type |-> type,
                   result |-> increaseVersion(call.version, type)]
    /\ UNCHANGED flowVars

NextFn == CallMergeExtensions \/ CallGetCommitMessage \/ CallIncreaseVersion

SpecFn == InitFn /\ [][NextFn]_vars

---------------------------------------------------------------------------
(* The working tree, the staging area and the files on disk. *)

\* makeRelease: extensionFiles
ExtensionFiles == <<ExtensionsJsonName, PackageJsonName, IconName, ReadmeName>>

\* the files of the working tree, in the order listProjectDir lists them
TreeFiles == <<ExtensionsJsonName, ReadmeName, IconName, PackageJsonName, ReleaseScriptName>>

\* the files whose content may differ from HEAD when the run starts
MayChange == {ExtensionsJsonName, ReadmeName, PackageJsonName, ReleaseScriptName}

\* process.cwd() followed by the path separator: '/w/'
CwdPrefix == <<47, 119, 47>>

\* path.resolve(ext) and path.join(process.cwd(), item), of a relative path
resolve(p) == CwdPrefix \o p

\* path.relative(process.cwd(), file)
relative(file) == SubSeq(file, Len(CwdPrefix) + 1, Len(file))

getProjectFiles_all(extensionFiles) ==
    [i \in DOMAIN TreeFiles |-> relative(resolve(TreeFiles[i]))]

\* getProjectFiles: the listed files that end with no extension file's path
getProjectFiles(extensionFiles) ==
    LET listed == [i \in DOMAIN TreeFiles |-> resolve(TreeFiles[i])]
        kept == SelectSeq(listed, LAMBDA file :
                    ~\E k \in DOMAIN extensionFiles :
                        endsWith(file, resolve(extensionFiles[k])))
    IN  [i \in DOMAIN kept |-> relative(kept[i])]

\* readJsonFile: comment and blank lines dropped, the rest parsed
readJsonFile(file) == file.json

updatePackageJson_fresh(d) ==
    [comments |-> 0,
     json |-> [version |-> d.updatedVersion, extensionPack |-> d.updatedExtensions]]

\* updatePackageJson: the file written, JSON.stringify(data.packageJson, null, 4)
updatePackageJson(d) ==
    [comments |-> 0,
     json |-> [d.packageJson EXCEPT !.version = d.updatedVersion,
                                    !.extensionPack = d.updatedExtensions]]

\* hasChangesOnExtensionList, on the lists it has sorted in place
hasChangesOnExtensionList(d) ==
    sort(d.currentExtensions) # sort(d.updatedExtensions)

\* git add <paths>: the changed files among the paths enter the staging area
gitAdd(paths) == staged \cup (paths \cap changed)

\* git diff --name-only --cached . : the staged paths, one per line, in path order
RECURSIVE gitDiffNameOnlyCached(_)
gitDiffNameOnlyCached(files) ==
    IF files = {} THEN <<>>
    ELSE LET f == CHOOSE x \in files : \A y \in files : ~codeUnitLess(y, x)
         IN  f \o <<LF>> \o gitDiffNameOnlyCached(files \ {f})

\* getStagedFiles: the non-blank lines of the command's output
getStagedFiles(files) ==
    SelectSeq(split(gitDiffNameOnlyCached(files), LF), LAMBDA file : trim(file) # <<>>)

GitErrorTexts == {"fatal: Unable to create '.git/index.lock': File exists."}

\* execGitCommand's error: LoggerErrorHandler('Git command failed', `Command: ...\nError: ...`)
gitError(command, text) ==
    [message |-> <<"Git command failed">>,
     verboseContent |-> <<"Command: ", command, "\nError: ", text>>]

\* new LoggerErrorHandler(message, err.message)
wrap(message, err) == [message |-> <<message>>, verboseContent |-> err.message]

\* the answers typed at the prompt: 'y', 'Y', 'n', 'yes' is as 'y', ''
Answers == {<<121>>, <<89>>, <<110>>, <<>>}

\* two manifests: the version of the repository's package.json, and one whose
\* bumps carry into a second digit, in a file with comment lines
ManifestVariants ==
    { [comments |-> 0, version |-> <<51, DOT, 49, DOT, 48>>, nums |-> <<3, 1, 0>>],
      [comments |-> 2, version |-> <<49, DOT, 57, DOT, 57>>, nums |-> <<1, 9, 9>>] }

\* 'a.b', 'c.d'
PackIds == {<<97, 46, 98>>, <<99, 46, 100>>}

CurrentLists == SeqsUpTo(PackIds, MaxPack)

RecommendedLists == SeqsUpTo(PackIds, MaxPack + 1)

Init ==
    /\ call = NoCall
    /\ pc = "getProjectFiles"
    /\ exitCode = -1
    /\ \E v \in ManifestVariants, cur \in CurrentLists :
          manifest = [comments |-> v.comments,
                      json |-> [name |-> "dev-essentials-pack",
                                publisher |-> "SiriusRed",
                                version |-> v.version,
                                extensionPack |-> cur]]
    /\ manifest0 = manifest
    /\ \E rec \in RecommendedLists :
          recommendations = [comments |-> 1, json |-> [recommendations |-> rec]]
    /\ \E ch \in SUBSET MayChange :
          /\ Cardinality(ch) <= MaxChanged
          /\ changed = ch
    /\ changed0 = changed
    /\ staged \in SUBSET changed
    /\ staged0 = staged
    /\ commits = <<>>
    /\ projectFiles = <<>>
    /\ data = [set |-> FALSE]
    /\ cpfMessage = <<>>
    /\ answers = <<>>
    /\ gitFailures = <<>>
    /\ report = [set |-> FALSE]
    /\ log = <<>>

---------------------------------------------------------------------------
(* makeRelease, one action per step. *)

\* LoggerErrorHandler.handle on a LoggerErrorHandler: log it and process.exit(1)
handle(err) ==
    /\ report' = [set |-> TRUE, message |-> err.message,
                  verboseContent |-> err.verboseContent]
    /\ exitCode' = 1
    /\ pc' = "exit"

exit0_code1 ==
    /\ exitCode' = 1
    /\ pc' = "exit"

\* process.exit(0)
exit0 ==
    /\ exitCode' = 0
    /\ pc' = "exit"

\* makeRelease: const projectFiles = getProjectFiles(extensionFiles)
GetProjectFiles ==
    /\ pc = "getProjectFiles"
    /\ \/ /\ projectFiles' = getProjectFiles(ExtensionFiles)
          /\ pc' = "getExtensionPackData"
          /\ UNCHANGED <<exitCode, report>>
       \/ /\ handle(wrap("Failed to get project files",
                         [message |-> <<"Failed to list directory">>]))
          /\ UNCHANGED projectFiles
    /\ UNCHANGED <<call, manifest, manifest0, recommendations, changed, staged,
                   staged0, commits, data, cpfMessage, answers, gitFailures,
                   changed0, log>>

\* getExtensionPackData up to bumpVersion(data)
GetExtensionPackData ==
    /\ pc = "getExtensionPackData"
    /\ \/ LET packageJson == readJsonFile(manifest)
              extensions == readJsonFile(recommendations)
              currentExtensions == packageJson.extensionPack
              updatedExtensions ==
                  mergeExtensions(currentExtensions, extensions.recommendations)
              message == getCommitMessageByExtensionListChanges(
                             currentExtensions, updatedExtensions)
          IN  /\ data' = bumpVersion(
                     [set |-> TRUE,
                      extensionFiles |-> ExtensionFiles,
                      packageJson |-> packageJson,
                      currentVersion |-> packageJson.version,
                      updatedVersion |-> <<>>,
                      currentExtensions |-> currentExtensions,
                      updatedExtensions |-> updatedExtensions,
                      message |-> message])
              /\ pc' = "addAdditionalInfoToMessage"
              /\ UNCHANGED <<exitCode, report>>
       \/ \E path \in {"package.json", ".vscode/extensions.json"} :
              /\ handle(wrap("Failed to get metadata",
                             [message |-> <<"Failed to read file: ", path>>]))
              /\ UNCHANGED data
    /\ UNCHANGED <<call, manifest, manifest0, recommendations, changed, staged,
                   staged0, commits, projectFiles, cpfMessage, answers,
                   gitFailures, changed0, log>>

\* addAdditionalInfoToMessage: git add of the extension files
EnrichGitAdd ==
    /\ pc = "addAdditionalInfoToMessage"
    /\ \/ /\ staged' = gitAdd(Range(data.extensionFiles))
          /\ pc' = "enrichGetStagedFiles"
          /\ UNCHANGED <<exitCode, report, gitFailures>>
       \/ \E text \in GitErrorTexts :
              /\ gitFailures' = Append(gitFailures,
                     [command |-> "git add <extensionFiles>", error |-> text])
              /\ handle(wrap("Failed to get metadata",
                             gitError("git add <extensionFiles>", text)))
              /\ UNCHANGED staged
    /\ UNCHANGED <<call, manifest, manifest0, recommendations, changed, staged0,
                   commits, projectFiles, data, cpfMessage, answers, changed0, log>>

enrichMessage_always(d, stagedFiles) ==
    LET hasMessage == trim(d.message) # <<>>
    IN  (IF hasMessage THEN d.message \o <<LF, LF>> ELSE TitleTemplate)
        \o getCommitMessageByStagedFiles(stagedFiles, ExtensionFilesTitle)

\* addAdditionalInfoToMessage: data.message after the staged files are read
enrichMessage(d, stagedFiles) ==
    LET hasMessage == trim(d.message) # <<>>
    IN  IF SelectSeq(stagedFiles, LAMBDA f :
                IF hasMessage THEN ~strIncludes(f, PackageJsonName) ELSE TRUE) # <<>>
        THEN (IF hasMessage THEN d.message \o <<LF, LF>> ELSE TitleTemplate)
             \o getCommitMessageByStagedFiles(stagedFiles, ExtensionFilesTitle)
        ELSE d.message

\* addAdditionalInfoToMessage: getStagedFiles and the message
EnrichGetStagedFiles ==
    /\ pc = "enrichGetStagedFiles"
    /\ \/ /\ data' = [data EXCEPT !.message = enrichMessage(data, getStagedFiles(staged))]
          /\ pc' = "enrichRestore"
          /\ UNCHANGED <<exitCode, report, gitFailures>>
       \/ \E text \in GitErrorTexts :
              /\ gitFailures' = Append(gitFailures,
                     [command |-> "git diff --name-only --cached .", error |-> text])
              /\ handle(wrap("Failed to get metadata",
                             gitError("git diff --name-only --cached .", text)))
              /\ UNCHANGED data
    /\ UNCHANGED <<call, manifest, manifest0, recommendations, changed, staged,
                   staged0, commits, projectFiles, cpfMessage, answers, changed0, log>>

EnrichRestore_leaveStaged ==
    /\ pc = "enrichRestore"
    /\ \/ /\ data' = [data EXCEPT !.message =
                          replaceFirst(@, VersionPlaceholder, data.updatedVersion)]
          /\ pc' = "commitProjectFiles"
          /\ UNCHANGED <<staged, exitCode, report, gitFailures>>
       \/ \E text \in GitErrorTexts :
              /\ gitFailures' = Append(gitFailures,
                     [command |-> "git restore --staged .", error |-> text])
              /\ handle(wrap("Failed to get metadata",
                             gitError("git restore --staged .", text)))
              /\ UNCHANGED <<staged, data>>
    /\ UNCHANGED <<call, manifest, manifest0, recommendations, changed, staged0,
                   commits, projectFiles, cpfMessage, answers, changed0, log>>

\* addAdditionalInfoToMessage: git restore --staged . ; then getExtensionPackData
\* resolves the placeholder and returns
EnrichRestore ==
    /\ pc = "enrichRestore"
    /\ \/ /\ staged' = {}
          /\ data' = [data EXCEPT !.message =
                          replaceFirst(@, VersionPlaceholder, data.updatedVersion)]
          /\ pc' = "commitProjectFiles"
          /\ UNCHANGED <<exitCode, report, gitFailures>>
       \/ \E text \in GitErrorTexts :
              /\ gitFailures' = Append(gitFailures,
                     [command |-> "git restore --staged .", error |-> text])
              /\ handle(wrap("Failed to get metadata",
                             gitError("git restore --staged .", text)))
              /\ UNCHANGED <<staged, data>>
    /\ UNCHANGED <<call, manifest, manifest0, recommendations, changed, staged0,
                   commits, projectFiles, cpfMessage, answers, changed0, log>>

\* commitProjectFiles: git add of the project files
CpfGitAdd ==
    /\ pc = "commitProjectFiles"
    /\ \/ /\ staged' = gitAdd(Range(projectFiles))
          /\ pc' = "cpfGetStagedFiles"
          /\ UNCHANGED gitFailures
       \/ \E text \in GitErrorTexts :
              /\ gitFailures' = Append(gitFailures,
                     [command |-> "git add <projectFiles>", error |-> text])
              /\ pc' = "cpfCatch"
              /\ UNCHANGED staged
    /\ UNCHANGED <<call, exitCode, manifest, manifest0, recommendations, changed,
                   staged0, commits, projectFiles, data, cpfMessage, answers,
                   changed0, report, log>>

\* commitProjectFiles: the message of the staged files; nothing staged, nothing to do
CpfGetStagedFiles ==
    /\ pc = "cpfGetStagedFiles"
    /\ \/ LET message == getCommitMessageByStagedFiles(getStagedFiles(staged),
                                                       ProjectFilesTitle)
          IN  /\ cpfMessage' = message
              /\ IF trim(message) = <<>>
                 THEN /\ log' = Append(log, "No changes to commit for project files.")
                      /\ pc' = "updateExtensionPack"
                 ELSE /\ log' = Append(log, "The following changes will be applied:\n")
                      /\ pc' = "cpfConfirm"
              /\ UNCHANGED gitFailures
       \/ \E text \in GitErrorTexts :
              /\ gitFailures' = Append(gitFailures,
                     [command |-> "git diff --name-only --cached .", error |-> text])
              /\ pc' = "cpfCatch"
              /\ UNCHANGED <<cpfMessage, log>>
    /\ UNCHANGED <<call, exitCode, manifest, manifest0, recommendations, changed,
                   staged, staged0, commits, projectFiles, data, answers, changed0,
                   report>>

\* commitProjectFiles: confirm('Do you want to apply the changes?', question)
CpfConfirm ==
    /\ pc = "cpfConfirm"
    /\ \E answer \in Answers :
          /\ answers' = Append(answers, [stage |-> "commitProjectFiles", answer |-> answer])
          /\ pc' = IF confirm(answer) THEN "cpfCommit" ELSE "cpfDecline"
    /\ UNCHANGED <<call, exitCode, manifest, manifest0, recommendations, changed,
                   staged, staged0, commits, projectFiles, data, cpfMessage,
                   gitFailures, changed0, report, log>>

\* commitProjectFiles, the answer was no: unstage, log, process.exit(0)
CpfDecline ==
    /\ pc = "cpfDecline"
    /\ \/ /\ staged' = {}
          /\ log' = Append(log, "Aborted! No changes applied.")
          /\ exit0
          /\ UNCHANGED gitFailures
       \/ \E text \in GitErrorTexts :
              /\ gitFailures' = Append(gitFailures,
                     [command |-> "git restore --staged .", error |-> text])
              /\ pc' = "cpfCatch"
              /\ UNCHANGED <<staged, log, exitCode>>
    /\ UNCHANGED <<call, manifest, manifest0, recommendations, changed, staged0,
                   commits, projectFiles, data, cpfMessage, answers, changed0, report>>

\* git commit -m "<message>": the staged files become a commit; nothing staged fails
gitCommit(stage, message) ==
    /\ staged # {}
    /\ commits' = Append(commits, [stage |-> stage, files |-> staged, message |-> message])
    /\ changed' = changed \ staged
    /\ staged' = {}

\* commitProjectFiles: git commit
CpfCommit ==
    /\ pc = "cpfCommit"
    /\ \/ /\ gitCommit("commitProjectFiles", cpfMessage)
          /\ pc' = "updateExtensionPack"
          /\ UNCHANGED gitFailures
       \/ \E text \in GitErrorTexts :
              /\ gitFailures' = Append(gitFailures,
                     [command |-> "git commit -m <message>", error |-> text])
              /\ pc' = "cpfCatch"
              /\ UNCHANGED <<staged, changed, commits>>
    /\ UNCHANGED <<call, exitCode, manifest, manifest0, recommendations, staged0,
                   projectFiles, data, cpfMessage, answers, changed0, report, log>>

\* the catch block of a commit stage: unstage, then throw the stage's error, which
\* makeRelease's catch hands to LoggerErrorHandler.handle; a failing unstage throws
\* execGitCommand's own error instead
catchBlock(message) ==
    /\ \/ /\ staged' = {}
          /\ handle(wrap(message, [message |-> <<"Git command failed">>]))
          /\ UNCHANGED gitFailures
       \/ \E text \in GitErrorTexts :
              /\ gitFailures' = Append(gitFailures,
                     [command |-> "git restore --staged .", error |-> text])
              /\ handle(gitError("git restore --staged .", text))
              /\ UNCHANGED staged
    /\ UNCHANGED <<call, manifest, manifest0, recommendations, changed, staged0,
                   commits, projectFiles, data, cpfMessage, answers, changed0, log>>

\* commitProjectFiles: catch (err)
CpfCatch ==
    /\ pc = "cpfCatch"
    /\ catchBlock("Failed to commit project files")

\* updateExtensionPack
UpdateExtensionPack ==
    /\ pc = "updateExtensionPack"
    /\ LET sorted == [data EXCEPT
                         !.currentExtensions = sort(@),
                         !.updatedExtensions = sort(@),
                         !.packageJson.extensionPack = sort(@)]
       IN  IF ~hasChangesOnExtensionList(data) /\ trim(data.message) = <<>>
           THEN /\ log' = Append(log, "No changes needed in package.json file.")
                /\ data' = sorted
                /\ UNCHANGED <<manifest, changed>>
           ELSE /\ manifest' = updatePackageJson(sorted)
                /\ data' = [sorted EXCEPT !.packageJson = updatePackageJson(sorted).json]
                /\ changed' = changed \cup {PackageJsonName}
                /\ UNCHANGED log
    /\ pc' = "commitExtensionFiles"
    /\ UNCHANGED <<call, exitCode, manifest0, recommendations, staged, staged0,
                   commits, projectFiles, cpfMessage, answers, gitFailures,
                   changed0, report>>

\* commitExtensionFiles: git add . ; no message, nothing to do and makeRelease returns
CefGitAdd ==
    /\ pc = "commitExtensionFiles"
    /\ \/ /\ staged' = gitAdd(changed)
          /\ IF trim(data.message) = <<>>
             THEN /\ log' = Append(log, "No changes to commit for extension files.")
                  /\ pc' = "done"
                  /\ exitCode' = 0
             ELSE /\ log' = Append(log, "The following changes will be applied:\n")
                  /\ pc' = "cefConfirm"
                  /\ UNCHANGED exitCode
          /\ UNCHANGED gitFailures
       \/ \E text \in GitErrorTexts :
              /\ gitFailures' = Append(gitFailures,
                     [command |-> "git add .", error |-> text])
              /\ pc' = "cefCatch"
              /\ UNCHANGED <<staged, log, exitCode>>
    /\ UNCHANGED <<call, manifest, manifest0, recommendations, changed, staged0,
                   commits, projectFiles, data, cpfMessage, answers, changed0, report>>

\* commitExtensionFiles: confirm('Do you want to apply the changes?', question)
CefConfirm ==
    /\ pc = "cefConfirm"
    /\ \E answer \in Answers :
          /\ answers' = Append(answers, [stage |-> "commitExtensionFiles", answer |-> answer])
          /\ pc' = IF confirm(answer) THEN "cefCommit" ELSE "cefDecline"
    /\ UNCHANGED <<call, exitCode, manifest, manifest0, recommendations, changed,
                   staged, staged0, commits, projectFiles, data, cpfMessage,
                   gitFailures, changed0, report, log>>

\* commitExtensionFiles, the answer was no: unstage, log, process.exit(0)
CefDecline ==
    /\ pc = "cefDecline"
    /\ \/ /\ staged' = {}
          /\ log' = Append(log, "Aborted! No changes applied.")
          /\ exit0
          /\ UNCHANGED gitFailures
       \/ \E text \in GitErrorTexts :
              /\ gitFailures' = Append(gitFailures,
                     [command |-> "git restore --staged .", error |-> text])
              /\ pc' = "cefCatch"
              /\ UNCHANGED <<staged, log, exitCode>>
    /\ UNCHANGED <<call, manifest, manifest0, recommendations, changed, staged0,
                   commits, projectFiles, data, cpfMessage, answers, changed0, report>>

\* commitExtensionFiles: git commit; makeRelease returns
CefCommit ==
    /\ pc = "cefCommit"
    /\ \/ /\ gitCommit("commitExtensionFiles", data.message)
          /\ pc' = "done"
          /\ exitCode' = 0
          /\ UNCHANGED gitFailures
       \/ \E text \in GitErrorTexts :
              /\ gitFailures' = Append(gitFailures,
                     [command |-> "git commit -m <message>", error |-> text])
              /\ pc' = "cefCatch"
              /\ UNCHANGED <<staged, changed, commits, exitCode>>
    /\ UNCHANGED <<call, manifest, manifest0, recommendations, staged0,
                   projectFiles, data, cpfMessage, answers, changed0, report, log>>

\* commitExtensionFiles: catch (err)
CefCatch ==
    /\ pc = "cefCatch"
    /\ catchBlock("Failed to commit changes")

Next ==
    \/ GetProjectFiles
    \/ GetExtensionPackData
    \/ EnrichGitAdd
    \/ EnrichGetStagedFiles
    \/ EnrichRestore
    \/ CpfGitAdd
    \/ CpfGetStagedFiles
    \/ CpfConfirm
    \/ CpfDecline
    \/ CpfCommit
    \/ CpfCatch
    \/ UpdateExtensionPack
    \/ CefGitAdd
    \/ CefConfirm
    \/ CefDecline
    \/ CefCommit
    \/ CefCatch

Spec == Init /\ [][Next]_vars


---------------------------------------------------------------------------
(* Properties. The orders, renderings and sets below are stated on their   *)
(* own, not through the operators that model the script.                   *)

\* a <= b in lexicographic order of the code units
LexLeq(a, b) ==
    LET n == IF Len(a) < Len(b) THEN Len(a) ELSE Len(b)
        diff == {i \in 1..n : a[i] # b[i]}
    IN  IF diff = {} THEN Len(a) <= Len(b)
        ELSE LET i == CHOOSE k \in diff : \A j \in diff : k <= j
             IN  a[i] < b[i]

\* how often x occurs in list
Occurrences(list, x) == Cardinality({i \in DOMAIN list : list[i] = x})

\* the decimal numeral of n < 100
Numeral(n) ==
    IF n < 10 THEN <<48 + n>> ELSE <<48 + (n \div 10), 48 + (n % 10)>>

\* the text major.minor.patch
VersionText(major, minor, patch) ==
    Numeral(major) \o <<46>> \o Numeral(minor) \o <<46>> \o Numeral(patch)

\* C1: mergeExtensions(A, B) is sorted in ascending lexicographic order, its
\* elements are exactly (A intersect B) union (B minus A), none of them is in
\* A minus B, and it is empty for empty inputs; ["a.b"] merged with
\* ["a.b", "c.d"] is ["a.b", "c.d"].
C1_MergeSortedExact ==
    call.op = "mergeExtensions" =>
        LET A == Range(call.a)
            B == Range(call.b)
            R == call.result
        IN  /\ \A i \in DOMAIN R : \A j \in DOMAIN R : i < j => LexLeq(R[i], R[j])
            /\ Range(R) = (A \cap B) \cup (B \ A)
            /\ Range(R) \cap (A \ B) = {}
            /\ (call.a = <<>> /\ call.b = <<>>) => R = <<>>
            /\ (call.a = << <<97, 46, 98>> >>
                /\ call.b = << <<97, 46, 98>>, <<99, 46, 100>> >>)
               => R = << <<97, 46, 98>>, <<99, 46, 100>> >>

\* a merge of lists with a kept, a removed and an added identifier, where the
\* recommended list is out of order
C1_Witness ==
    /\ call.op = "mergeExtensions"
    /\ Range(call.a) \cap Range(call.b) # {}
    /\ Range(call.a) \ Range(call.b) # {}
    /\ Range(call.b) \ Range(call.a) # {}
    /\ \E i \in DOMAIN call.b : \E j \in DOMAIN call.b :
          i < j /\ ~LexLeq(call.b[i], call.b[j])
    /\ Len(call.result) >= 2

\* C3: increaseVersion of major.minor.patch is (major+1).0.0 for 'major',
\* major.(minor+1).0 for 'minor', major.minor.(patch+1) for 'patch' and the
\* version unchanged for any other type; 1.2.3 gives 2.0.0, 1.3.0 and 1.2.4.
C3_IncreaseVersion ==
    call.op = "increaseVersion" =>
        LET major == call.nums[1]
            minor == call.nums[2]
            patch == call.nums[3]
        IN  /\ call.type = "major" => call.result = VersionText(major + 1, 0, 0)
            /\ call.type = "minor" => call.result = VersionText(major, minor + 1, 0)
            /\ call.type = "patch" => call.result = VersionText(major, minor, patch + 1)
            /\ call.type \notin {"major", "minor", "patch"} => call.result = call.version
            /\ call.nums = <<1, 2, 3>> =>
                  /\ call.version = <<49, 46, 50, 46, 51>>
                  /\ call.type = "major" => call.result = <<50, 46, 48, 46, 48>>
                  /\ call.type = "minor" => call.result = <<49, 46, 51, 46, 48>>
                  /\ call.type = "patch" => call.result = <<49, 46, 50, 46, 52>>

\* a minor increase that carries into a second digit and resets a non-zero patch
C3_Witness ==
    /\ call.op = "increaseVersion"
    /\ call.type = "minor"
    /\ call.nums[2] = 9
    /\ call.nums[3] > 0
    /\ call.result = VersionText(call.nums[1], 10, 0)

\* the lines of a report as they read once the colour codes are taken out
ReportLines(message) == split(removeANSI(message), 10)

\* the line of identifier x with marker '•' (kept), '-' (removed) or '+' (added)
MarkedLine(marker, x) == <<32, 32, marker, 32>> \o x

\* C4: the report of getCommitMessageByExtensionListChanges(current, updated)
\* is empty iff no identifier is added or removed; otherwise it has one line
\* for each identifier of current, marked kept if it is in updated and removed
\* if not, one line marked added for each identifier of updated that is not in
\* current, and no other identifier line.
C4_DiffReport ==
    call.op = "getCommitMessageByExtensionListChanges" =>
        LET current == call.a
            updated == call.b
            added == Range(updated) \ Range(current)
            removed == Range(current) \ Range(updated)
            lines == ReportLines(call.result)
        IN  /\ call.result = <<>> <=> (added = {} /\ removed = {})
            /\ call.result # <<>> =>
                  /\ \A x \in Range(current) \cup Range(updated) :
                        /\ Occurrences(lines, MarkedLine(8226, x)) =
                              (IF x \in Range(updated)
                               THEN Occurrences(current, x) ELSE 0)
                        /\ Occurrences(lines, MarkedLine(45, x)) =
                              (IF x \in Range(updated)
                               THEN 0 ELSE Occurrences(current, x))
                        /\ Occurrences(lines, MarkedLine(43, x)) =
                              (IF x \in Range(current)
                               THEN 0 ELSE Occurrences(updated, x))
                  /\ \A i \in DOMAIN lines :
                        (lines[i] # <<>> /\ lines[i][1] = 32) =>
                            \E x \in Range(current) \cup Range(updated) :
                                lines[i] \in {MarkedLine(8226, x), MarkedLine(45, x),
                                              MarkedLine(43, x)}

\* a report with a kept, a removed and an added identifier
C4_Witness ==
    /\ call.op = "getCommitMessageByExtensionListChanges"
    /\ Range(call.a) \cap Range(call.b) # {}
    /\ Range(call.a) \ Range(call.b) # {}
    /\ Range(call.b) \ Range(call.a) # {}
    /\ call.result # <<>>

\* the four extension files
ExtensionFileNames == {PackageJsonName, ExtensionsJsonName, IconName, ReadmeName}

\* the lists the run started from
Current0 == manifest0.json.extensionPack
Recommended0 == recommendations.json.recommendations

\* C2: the updated version computed by getExtensionPackData from the version
\* major.minor.patch, the current list A and the recommendations B is
\* (major+1).0.0 if A minus B is non-empty, otherwise major.(minor+1).0 if
\* B minus A is non-empty, otherwise major.minor.(patch+1), whatever files are
\* changed or staged in the working tree.
C2_BumpPolicy ==
    data.set =>
        \A v \in ManifestVariants :
            manifest0.json.version = v.version =>
                LET A == Range(Current0)
                    B == Range(Recommended0)
                IN  data.updatedVersion =
                        IF A \ B # {} THEN VersionText(v.nums[1] + 1, 0, 0)
                        ELSE IF B \ A # {} THEN VersionText(v.nums[1], v.nums[2] + 1, 0)
                        ELSE VersionText(v.nums[1], v.nums[2], v.nums[3] + 1)

\* Enrich is over, files were staged when the run started, an identifier is kept
\* and one is added: the minor bump of 1.9.9 is 1.10.0
C2_Witness ==
    /\ pc = "commitProjectFiles"
    /\ staged0 # {}
    /\ Range(Current0) \cap Range(Recommended0) # {}
    /\ Range(Current0) \ Range(Recommended0) = {}
    /\ Range(Recommended0) \ Range(Current0) # {}
    /\ data.updatedVersion = <<49, 46, 49, 48, 46, 48>>

\* the answer starts with 'y' or 'Y'
StartsWithY(answer) == Len(answer) > 0 /\ answer[1] \in {121, 89}

\* the commits a stage created
CommitsOf(stage) == {i \in DOMAIN commits : commits[i].stage = stage}

\* no stage after the given one has run
NoLaterStage(stage) ==
    /\ CommitsOf("commitExtensionFiles") = {}
    /\ stage = "commitProjectFiles" => manifest = manifest0

\* C5 as claimed: once an answer that does not start with 'y' or 'Y' is given at
\* a confirmation prompt, the run is still in that stage, or it has ended with
\* the staging area empty, no commit by that stage, no later stage run and exit
\* code 0.
C5_DeclineAlwaysCleanExit ==
    \A i \in DOMAIN answers :
        ~StartsWithY(answers[i].answer) =>
            \/ pc \in {"cpfDecline", "cefDecline", "cpfCatch", "cefCatch"}
            \/ /\ pc = "exit"
               /\ exitCode = 0
               /\ staged = {}
               /\ CommitsOf(answers[i].stage) = {}
               /\ NoLaterStage(answers[i].stage)

\* C5 as amended: after such an answer that stage creates no commit and no later
\* stage runs; if the unstage command succeeds the staging area is empty and the
\* process ends at once with exit code 0, and if it fails the run ends as a
\* fatal error with exit code 1.
C5_DeclineCleanExitUnlessUnstageFails ==
    \A i \in DOMAIN answers :
        ~StartsWithY(answers[i].answer) =>
            /\ i = Len(answers)
            /\ CommitsOf(answers[i].stage) = {}
            /\ NoLaterStage(answers[i].stage)
            /\ \/ pc \in {"cpfDecline", "cefDecline"} /\ gitFailures = <<>>
               \/ /\ gitFailures = <<>>
                  /\ pc = "exit"
                  /\ exitCode = 0
                  /\ staged = {}
                  /\ log[Len(log)] = "Aborted! No changes applied."
               \/ /\ gitFailures # <<>>
                  /\ gitFailures[1].command = "git restore --staged ."
                  /\ \/ pc \in {"cpfCatch", "cefCatch"}
                     \/ pc = "exit" /\ exitCode = 1

\* the empty answer at the prompt of commitExtensionFiles, after the project
\* files were committed: the run has ended with exit code 0
C5_Witness ==
    /\ pc = "exit"
    /\ exitCode = 0
    /\ Len(answers) = 2
    /\ answers[2].answer = <<>>
    /\ CommitsOf("commitProjectFiles") # {}
    /\ staged = {}

\* the manifest on disk is not the one the run started from
ManifestRewritten == manifest.json.version # manifest0.json.version

\* updateExtensionPack has run
AfterUpdateExtensionPack ==
    pc \in {"commitExtensionFiles", "cefConfirm", "cefDecline", "cefCommit",
            "cefCatch", "done"}

\* the same identifiers, each as often
SameAfterSorting(a, b) ==
    /\ Range(a) = Range(b)
    /\ \A x \in Range(a) : Occurrences(a, x) = Occurrences(b, x)

\* C6: updateExtensionPack writes the manifest iff the merged list differs from
\* the current list or the message is non-empty; when current equals
\* recommended after sorting and no extension file has changed, the manifest is
\* left untouched, 'no changes needed' is logged and commitExtensionFiles
\* creates no commit.
C6_ManifestWrittenOnlyOnChange ==
    AfterUpdateExtensionPack =>
        /\ ManifestRewritten <=>
              (~SameAfterSorting(Current0, data.updatedExtensions) \/ data.message # <<>>)
        /\ (SameAfterSorting(Current0, Recommended0)
            /\ changed0 \cap ExtensionFileNames = {}) =>
              /\ manifest = manifest0
              /\ \E i \in DOMAIN log : log[i] = "No changes needed in package.json file."
              /\ CommitsOf("commitExtensionFiles") = {}

\* the first half of C6 alone
C6_WriteRule ==
    AfterUpdateExtensionPack =>
        (ManifestRewritten <=>
            (~SameAfterSorting(Current0, data.updatedExtensions) \/ data.message # <<>>))

\* the messages that name a stage of makeRelease
StageMessages ==
    { <<"Failed to get project files">>, <<"Failed to get metadata">>,
      <<"Failed to commit project files">>, <<"Failed to update extension pack">>,
      <<"Failed to commit changes">> }

\* C7: when a file-system read or a version-control command fails the error is
\* reported with a stage-specific message, the process ends with exit code 1 and
\* no later stage executes.
C7_FailureReportedWithStageMessage ==
    /\ gitFailures # <<>> => pc \in {"cpfCatch", "cefCatch", "exit"}
    /\ (pc = "exit" /\ (gitFailures # <<>> \/ report.set)) =>
          /\ exitCode = 1
          /\ report.set
          /\ report.message \in StageMessages

\* C7 without the stage-specific message: a failure ends the run with exit code 1
C7_FailureEndsRun ==
    /\ gitFailures # <<>> => pc \in {"cpfCatch", "cefCatch", "exit"}
    /\ (pc = "exit" /\ (gitFailures # <<>> \/ report.set)) =>
          exitCode = 1 /\ report.set

\* the text t is part of the report that reached the logger
ReportIncludes(t) ==
    t \in Range(report.message) \cup Range(report.verboseContent)

\* C8: when a version-control command has failed, the fatal error report that
\* reaches the logger includes the text of the failing command and the text of
\* the underlying error.
C8_ReportNamesCommandAndError ==
    (pc = "exit" /\ gitFailures # <<>>) =>
        /\ report.set
        /\ \E i \in DOMAIN gitFailures :
              /\ ReportIncludes(gitFailures[i].command)
              /\ ReportIncludes(gitFailures[i].error)

\* C9: the commit created by Commit Project Files contains no extension file.
C9_ProjectCommitHasNoExtensionFile ==
    \A i \in CommitsOf("commitProjectFiles") :
        commits[i].files \cap ExtensionFileNames = {}

\* the project files are committed in a run that started with a changed
\* extension file in the staging area
C9_Witness ==
    /\ CommitsOf("commitProjectFiles") # {}
    /\ staged0 \cap ExtensionFileNames # {}

\* C10: when updatePackageJson rewrites the manifest, its version is the updated
\* version, its extensionPack the merged list, and every other field keeps the
\* value read at the start of the run.
C10_ManifestFrame ==
    /\ DOMAIN manifest.json = DOMAIN manifest0.json
    /\ \A k \in DOMAIN manifest0.json \ {"version", "extensionPack"} :
          manifest.json[k] = manifest0.json[k]
    /\ ManifestRewritten =>
          /\ data.set
          /\ manifest.json.version = data.updatedVersion
          /\ manifest.json.extensionPack = data.updatedExtensions
          /\ data.updatedExtensions = mergeExtensions(Current0, Recommended0)

\* a manifest with comment lines has been rewritten and the run has completed
C10_Witness ==
    /\ ManifestRewritten
    /\ manifest0.comments > 0
    /\ manifest0.json.name = manifest.json.name
    /\ pc = "done"

\* the message the diff produced for the lists the run started from
DiffMessage0 ==
    getCommitMessageByExtensionListChanges(Current0, mergeExtensions(Current0, Recommended0))

\* the message carries the 'Extension files updated:' listing
ListingAppended == strIncludes(data.message, ExtensionFilesTitle)

\* the paths named in the listing: the lines '- <path>' of the message
ListedPaths ==
    LET lines == split(data.message, 10)
    IN  {SubSeq(lines[i], 3, Len(lines[i])) :
            i \in {k \in DOMAIN lines :
                      Len(lines[k]) > 2 /\ lines[k][1] = 45 /\ lines[k][2] = 32}}

\* Enrich has read the staged files and has not unstaged yet
EnrichInspected == pc = "enrichRestore"

\* C11 as claimed: in Enrich the 'Extension files updated:' listing is appended
\* only if a staged extension file other than package.json has changed, and when
\* package.json is the only staged file the message stays exactly as the diff
\* produced it, empty or not.
C11_ListingOnlyForNonManifestExtensionFile ==
    EnrichInspected =>
        /\ ListingAppended => (staged \cap ExtensionFileNames) \ {PackageJsonName} # {}
        /\ staged = {PackageJsonName} => data.message = DiffMessage0

\* C11 as amended: the listing is appended iff the diff message is non-empty and
\* some staged path is not package.json, or the diff message is empty and some
\* path is staged at all; it names every staged path and follows the diff
\* message, or the title when the diff message is empty; otherwise the message
\* stays as the diff produced it. With package.json the only staged file a
\* non-empty diff message is kept and an empty one becomes title and listing.
C11_ListingRule ==
    EnrichInspected =>
        /\ ListingAppended <=>
              (IF DiffMessage0 # <<>> THEN staged \ {PackageJsonName} # {}
               ELSE staged # {})
        /\ ~ListingAppended => data.message = DiffMessage0
        /\ ListingAppended =>
              /\ ListedPaths = staged
              /\ IF DiffMessage0 # <<>>
                 THEN SubSeq(data.message, 1, Len(DiffMessage0) + 2)
                         = DiffMessage0 \o <<10, 10>>
                 ELSE SubSeq(data.message, 1, Len(TitleTemplate)) = TitleTemplate
        /\ (staged = {PackageJsonName} /\ DiffMessage0 # <<>>) =>
              data.message = DiffMessage0
        /\ (staged = {PackageJsonName} /\ DiffMessage0 = <<>>) =>
              ListingAppended /\ ListedPaths = {PackageJsonName}

\* package.json is the only staged file and the diff message is empty: the
\* message has become title and listing
C11_Witness ==
    /\ EnrichInspected
    /\ staged = {PackageJsonName}
    /\ DiffMessage0 = <<>>
    /\ ListingAppended
    /\ ListedPaths = {PackageJsonName}

\* package.json is the only staged file and the diff message is not empty: the
\* message is the diff message
C11_WitnessKept ==
    /\ EnrichInspected
    /\ staged = {PackageJsonName}
    /\ DiffMessage0 # <<>>
    /\ data.message = DiffMessage0


\* C12: on every run that reaches them, the staging area is empty immediately
\* before the staging command of Commit Project Files and immediately before the
\* staging command of Commit Extension Files, whatever was staged or changed
\* when the run started.
C12_StagingEmptyBeforeStage ==
    pc \in {"commitProjectFiles", "commitExtensionFiles"} => staged = {}

\* Commit Extension Files is about to stage, in a run that started with staged
\* files and has committed the project files
C12_Witness ==
    /\ pc = "commitExtensionFiles"
    /\ staged0 # {}
    /\ CommitsOf("commitProjectFiles") # {}
    /\ staged = {}


\* the identifiers of the report's identifier lines, in the order of the lines
ReportIdentifiers(message) ==
    LET lines == SelectSeq(ReportLines(message),
                           LAMBDA l : Len(l) > 4 /\ l[1] = 32 /\ l[2] = 32 /\ l[4] = 32)
    IN  [i \in DOMAIN lines |-> SubSeq(lines[i], 5, Len(lines[i]))]

\* C13: for current and updated lists with an addition or a removal, over
\* identifiers with '.' and '-' where one may be a prefix of another, the
\* identifier lines of the report of getCommitMessageByExtensionListChanges are in
\* ascending lexicographic order of their identifiers.
C13_ReportSortedByIdentifier ==
    (call.op = "getCommitMessageByExtensionListChanges" /\ call.result # <<>>) =>
        LET ids == ReportIdentifiers(call.result)
        IN  \A i \in DOMAIN ids : \A j \in DOMAIN ids :
                i < j => LexLeq(ids[i], ids[j])


\* the text sub occurs in s
Contains(s, sub) ==
    \E i \in 1..(Len(s) - Len(sub) + 1) : SubSeq(s, i, i + Len(sub) - 1) = sub

\* the bump of the version the run started from, by the lists it started from
ExpectedVersion0 ==
    LET v == CHOOSE m \in ManifestVariants : m.version = manifest0.json.version
        A == Range(Current0)
        B == Range(Recommended0)
    IN  IF A \ B # {} THEN VersionText(v.nums[1] + 1, 0, 0)
        ELSE IF B \ A # {} THEN VersionText(v.nums[1], v.nums[2] + 1, 0)
        ELSE VersionText(v.nums[1], v.nums[2], v.nums[3] + 1)

\* C14: whenever commitExtensionFiles creates a commit, its message has no
\* '{{version}}' placeholder left, the version it names is the version
\* updatePackageJson wrote to the manifest in this run, and that version is the
\* bump of the version read at the start of the run.
C14_CommitNamesWrittenVersion ==
    \A i \in CommitsOf("commitExtensionFiles") :
        /\ ~Contains(commits[i].message, <<123, 123>>)
        /\ ~Contains(commits[i].message, <<125, 125>>)
        /\ ManifestRewritten
        /\ SubSeq(commits[i].message, 1, 29 + Len(manifest.json.version) + 2)
              = <<102, 101, 97, 116, 40, 101, 120, 116, 101, 110, 115, 105, 111,
                  110, 41, 58, 32, 85, 112, 100, 97, 116, 101, 115, 32, 116, 111,
                  32, 118>> \o manifest.json.version \o <<10, 10>>
        /\ manifest.json.version = ExpectedVersion0
        /\ PackageJsonName \in commits[i].files

\* the extension commit of a run from version 1.9.9 whose recommendations add an
\* identifier: the message names 1.10.0
C14_Witness ==
    \E i \in CommitsOf("commitExtensionFiles") :
        /\ manifest0.json.version = <<49, 46, 57, 46, 57>>
        /\ manifest.json.version = <<49, 46, 49, 48, 46, 48>>
        /\ Contains(commits[i].message, <<118, 49, 46, 49, 48, 46, 48, 10>>)


\* the user has declined the confirmation of commitExtensionFiles and the run
\* has ended through the decline
DeclinedExtensionCommit ==
    /\ pc = "exit"
    /\ exitCode = 0
    /\ answers # <<>>
    /\ answers[Len(answers)].stage = "commitExtensionFiles"
    /\ ~StartsWithY(answers[Len(answers)].answer)

\* C15: when the user declines the confirmation in commitExtensionFiles the run
\* ends with 'Aborted! No changes applied.' and the manifest on disk has the
\* version and the extension list it had at the start of the run.
C15_DeclineLeavesManifest ==
    DeclinedExtensionCommit =>
        /\ log[Len(log)] = "Aborted! No changes applied."
        /\ manifest.json.version = manifest0.json.version
        /\ manifest.json.extensionPack = manifest0.json.extensionPack

\* C16: every path named in the 'Extension files updated:' listing that Enrich
\* appends to the commit message is one of the four extension files, whatever
\* was staged or changed when the run started.
C16_ListingNamesOnlyExtensionFiles ==
    (data.set /\ ListingAppended) => ListedPaths \subseteq ExtensionFileNames


=============================================================================
